---- MODULE Spec2Model ----
(***************************************************************************)
(* Model of the visible-pass search of VisibleSatelliteFinder:            *)
(*   satellite_finder.py  azimuth_to_direction, satellite_db               *)
(*   main.py              SatellitePassTrackerApp: on_search,              *)
(*                        copy_tle_line, show_pass_graph                   *)
(* The orbit propagator (skyfield) is the environment: every satellite of  *)
(* the catalog carries the answers the propagator gives for it.            *)
(***************************************************************************)
EXTENDS Integers, Sequences, FiniteSets, TLC

VARIABLES satellites, query, ret, calls, outcome, op,
          entries, last_results, treeview, total_results_label, dialog,
          azimuth, direction,
          tle_file, satellite_tle_dict, clipboard,
          azel_args, graph, triples, requested

vars == <<satellites, query, ret, calls, outcome, op,
          entries, last_results, treeview, total_results_label, dialog,
          azimuth, direction,
          tle_file, satellite_tle_dict, clipboard,
          azel_args, graph, triples, requested>>

(***************************************************************************)
(* Bounds of the model.                                                    *)
(***************************************************************************)
\* instants are counted in ticks; a second has TicksPerSecond ticks
TicksPerSecond == 2
\* longest catalog
MaxCatalog == 2
\* number of evenly spread azimuths fed to azimuth_to_direction
AzSamples == 720
\* number of 10 s steps that fit in the pass of the satellites of SunlitCatalogs
GridSteps == 3
\* number of rows of the table that can be selected
MaxRows == 4
\* seconds between the earliest and the latest instant given to generate_azel_data
MaxSpan == 25
\* number of crossing events of the longest cyclic sequence
MaxEvents == 8
\* the longest window of a search, in half hours
MaxWindow == 4

(***************************************************************************)
(* Units: instants in ticks, azimuths in 1/10000 of a degree, altitudes    *)
(* in degrees, heights in km, timeframe_hours in halves of an hour.        *)
(***************************************************************************)
Sec(s) == s * TicksPerSecond
Deg(d) == d * 10000
Hours(h) == h * 2

Range(s) == {s[k] : k \in 1..Len(s)}

(***************************************************************************)
(* azimuth_to_direction (satellite_finder.py:8-28).  "None" is what the    *)
(* Python function returns when no branch is taken.                        *)
(***************************************************************************)
azimuth_to_direction_gt(az) ==
    IF az >= 3375000 \/ az < 225000 THEN "N"
    ELSE IF az > 225000 /\ az < 675000 THEN "NE"
    ELSE IF az >= 675000 /\ az < 1125000 THEN "E"
    ELSE IF az >= 1125000 /\ az < 1575000 THEN "SE"
    ELSE IF az >= 1575000 /\ az < 2025000 THEN "S"
    ELSE IF az >= 2025000 /\ az < 2475000 THEN "SW"
    ELSE IF az >= 2475000 /\ az < 2925000 THEN "W"
    ELSE IF az >= 2925000 /\ az < 3375000 THEN "NW"
    ELSE "None"

azimuth_to_direction(az) ==
    IF az >= 3375000 \/ az < 225000 THEN "N"
    ELSE IF az >= 225000 /\ az < 675000 THEN "NE"
    ELSE IF az >= 675000 /\ az < 1125000 THEN "E"
    ELSE IF az >= 1125000 /\ az < 1575000 THEN "SE"
    ELSE IF az >= 1575000 /\ az < 2025000 THEN "S"
    ELSE IF az >= 2025000 /\ az < 2475000 THEN "SW"
    ELSE IF az >= 2475000 /\ az < 2925000 THEN "W"
    ELSE IF az >= 2925000 /\ az < 3375000 THEN "NW"
    ELSE "None"

(***************************************************************************)
(* The environment: what the propagator answers for a satellite.           *)
(*   name    the characters of satellite.name                              *)
(*   height  wgs84.height_of(satellite.at(t0)).km                          *)
(*   track   the altitude-threshold events of the satellite, in time       *)
(*           order: t (ticks after the start instant), kind (0 rise,       *)
(*           1 culminate, 2 set: skyfield's event codes), and the altitude *)
(*           and azimuth the satellite has at that instant                 *)
(*   shadow  the instants at which is_sunlit is false                      *)
(*   fails   the propagator call that raises for this satellite, if any    *)
(***************************************************************************)
CallKinds == {"height", "events", "altaz", "sunlit"}

height_of(sat) == sat.height

find_events(sat, t0, t1) ==
    SelectSeq(sat.track, LAMBDA e : t0 <= e.t /\ e.t <= t1)

altaz(sat, t) ==
    LET e == CHOOSE x \in Range(sat.track) : x.t = t
    IN  [alt |-> e.alt, az |-> e.az]

is_sunlit(sat, t) == t \notin sat.shadow

(***************************************************************************)
(* find_visible_satellites (satellite_finder.py:201-350).                  *)
(* A query q is the argument list: location (the tuple, as a sequence),    *)
(* time (ticks), sma_range, altitude_degrees, min_peak_altitude,           *)
(* timeframe_hours (halves of an hour), min_duration (s), include_starlink.*)
(***************************************************************************)
STARLINK == <<"S", "T", "A", "R", "L", "I", "N", "K">>

\* Python's  pattern in name  on strings
RECURSIVE contains_from(_, _, _)
contains_from(name, pattern, k) ==
    IF k + Len(pattern) - 1 > Len(name) THEN FALSE
    ELSE IF SubSeq(name, k, k + Len(pattern) - 1) = pattern THEN TRUE
    ELSE contains_from(name, pattern, k + 1)

\* ts.utc(y, m, d, h, mi, s) of a datetime: the whole second, the fraction is dropped
utc_second(t) == (t \div TicksPerSecond) * TicksPerSecond

\* int(timeframe_hours): truncation toward zero, in whole hours
int_hours(h) == IF h >= 0 THEN h \div 2 ELSE 0 - ((0 - h) \div 2)

start_instant(q) == utc_second(q.time)
end_instant(q) == utc_second(q.time) + Sec(int_hours(q.timeframe_hours) * 3600)

\* lines 237-251: the interval given to find_events
requested_window(q) == <<start_instant(q), end_instant(q)>>

NoCalls == [height |-> 0, events |-> 0, altaz |-> 0, sunlit |-> 0]

name_excluded_flag(sat, q) ==
    q.include_starlink /\ contains_from(sat.name, STARLINK, 1)

name_excluded(sat, q) ==
    ~q.include_starlink /\ contains_from(sat.name, STARLINK, 1)

height_rejected_incl(sat, q) ==
    height_of(sat) <= q.sma_range[1] \/ height_of(sat) >= q.sma_range[2]

height_rejected(sat, q) ==
    height_of(sat) < q.sma_range[1] \/ height_of(sat) > q.sma_range[2]

too_few_events(events) == Len(events) <= 3

\* while events[i] != 0: i += 1     (index 1 is Python's index 0;
\* Len(events) + 1 stands for the IndexError of reading past the end)
first_rise_none(events, i) == i

RECURSIVE first_rise(_, _)
first_rise(events, i) ==
    IF i > Len(events) THEN i
    ELSE IF events[i].kind # 0 THEN first_rise(events, i + 1)
    ELSE i

\* while i + 2 < len(events - 1): events is a numpy array, events - 1 has its length
triple_inside(events, i) == (i - 1) + 2 < Len(events)

gross_too_short(duration, q) == duration < Sec(q.min_duration)

peak_too_low(peak_alt, q) == peak_alt < q.min_peak_altitude

\* forward scan for the first sunlit instant, 10 s at a time; n counts is_sunlit calls
RECURSIVE sun_start_scan(_, _, _, _)
sun_start_scan(sat, t, t_end, n) ==
    IF ~is_sunlit(sat, t) /\ t < t_end
    THEN sun_start_scan(sat, utc_second(t + Sec(10)), t_end, n + 1)
    ELSE [t |-> t, n |-> n + 1]

\* backward scan for the last sunlit instant
RECURSIVE sun_end_scan(_, _, _, _)
sun_end_scan(sat, t, t_start, n) ==
    IF ~is_sunlit(sat, t) /\ t > t_start
    THEN sun_end_scan(sat, utc_second(t - Sec(10)), t_start, n + 1)
    ELSE [t |-> t, n |-> n + 1]

no_sunlit_start_never(t_sun_start, t_end) == FALSE

no_sunlit_start(t_sun_start, t_end) == t_sun_start >= t_end

no_sunlit_end(t_sun_end, t_start) == t_sun_end <= t_start

refined_too_short_never(duration, q) == FALSE

refined_too_short(duration, q) == duration < Sec(q.min_duration)

peak_sunlit_assumed(sat, t_peak) == TRUE

peak_sunlit(sat, t_peak) == is_sunlit(sat, t_peak)

Skipped(c) == [passes |-> <<>>, calls |-> c, raised |-> "", triples |-> <<>>]
Raised(c, e) == [passes |-> <<>>, calls |-> c, raised |-> e, triples |-> <<>>]

\* lines 303-345: the end of the body of the triple loop, after the two scans
\* fwd and bwd (the instant each stopped at, the is_sunlit calls it made)
refine_sunlit(sat, q, t_start, t_peak, t_end, fwd, bwd) ==
    IF no_sunlit_start(fwd.t, t_end)
    THEN Skipped([NoCalls EXCEPT !.altaz = 3, !.sunlit = fwd.n])
    ELSE IF no_sunlit_end(bwd.t, t_start)
    THEN Skipped([NoCalls EXCEPT !.altaz = 3, !.sunlit = fwd.n + bwd.n])
    ELSE IF refined_too_short(bwd.t - fwd.t, q)
    THEN Skipped([NoCalls EXCEPT !.altaz = 3, !.sunlit = fwd.n + bwd.n])
    ELSE IF ~peak_sunlit(sat, t_peak)
    THEN Skipped([NoCalls EXCEPT !.altaz = 3, !.sunlit = fwd.n + bwd.n + 1])
    ELSE [passes |-> << [satellite |-> sat,
                         t_start |-> t_start,
                         t_peak |-> t_peak,
                         t_end |-> t_end,
                         start_az |-> azimuth_to_direction(altaz(sat, t_start).az),
                         end_az |-> azimuth_to_direction(altaz(sat, t_end).az),
                         peak_alt |-> altaz(sat, t_peak).alt,
                         duration |-> bwd.t - fwd.t,
                         t_sun_start |-> fwd.t,
                         t_sun_end |-> bwd.t] >>,
          calls |-> [NoCalls EXCEPT !.altaz = 3, !.sunlit = fwd.n + bwd.n + 1],
          raised |-> ""]

\* the body of the triple loop for the triple that starts at index i
evaluate_triple(sat, q, events, i) ==
    IF gross_too_short(events[i + 2].t - events[i].t, q) THEN Skipped(NoCalls)
    ELSE IF sat.fails = "altaz"
    THEN Raised([NoCalls EXCEPT !.altaz = 1], "PropagationError")
    ELSE IF peak_too_low(altaz(sat, events[i + 1].t).alt, q)
    THEN Skipped([NoCalls EXCEPT !.altaz = 1])
    ELSE IF sat.fails = "sunlit"
    THEN Raised([NoCalls EXCEPT !.altaz = 3, !.sunlit = 1], "PropagationError")
    ELSE refine_sunlit(sat, q, events[i].t, events[i + 1].t, events[i + 2].t,
                       sun_start_scan(sat, events[i].t, events[i + 2].t, 0),
                       sun_end_scan(sat, events[i + 2].t, events[i].t, 0))

AddCalls(a, b) == [k \in CallKinds |-> a[k] + b[k]]

\* what the loop has found so far, after the triple that starts at index i
\* gave r; triples lists the indices, counted from 0 as the code counts them,
\* at which the body of the loop was entered
AfterTriple(acc, i, r) ==
    [passes |-> acc.passes \o r.passes,
     calls |-> AddCalls(acc.calls, r.calls),
     raised |-> r.raised,
     triples |-> Append(acc.triples, i - 1)]

\* the triple loop, from index i on
RECURSIVE triple_loop(_, _, _, _, _)
RECURSIVE triple_loop_next(_, _, _, _, _)
triple_loop(sat, q, events, i, acc) ==
    IF ~triple_inside(events, i) THEN acc
    ELSE triple_loop_next(sat, q, events, i,
                          AfterTriple(acc, i, evaluate_triple(sat, q, events, i)))

\* i += 3 (line 276), unless the triple raised
triple_loop_next(sat, q, events, i, found) ==
    IF found.raised # "" THEN found
    ELSE triple_loop(sat, q, events, i + 3, found)

\* the body of the catalog loop for one satellite
scan_satellite(sat, q) ==
    LET cH == [NoCalls EXCEPT !.height = 1]
        cE == [NoCalls EXCEPT !.height = 1, !.events = 1]
        events == find_events(sat, start_instant(q), end_instant(q))
        i == first_rise(events, 1)
    IN  IF name_excluded(sat, q) THEN Skipped(NoCalls)
        ELSE IF sat.fails = "height" THEN Raised(cH, "PropagationError")
        ELSE IF height_rejected(sat, q) THEN Skipped(cH)
        ELSE IF sat.fails = "events" THEN Raised(cE, "PropagationError")
        ELSE IF too_few_events(events) THEN Skipped(cE)
        ELSE IF i > Len(events) THEN Raised(cE, "IndexError")
        ELSE triple_loop(sat, q, events, i, Skipped(cE))

\* list.sort(key=lambda x: x[1]): ascending by t_start, equal keys keep their order
RECURSIVE insert_unstable(_, _)
insert_unstable(sorted, x) ==
    IF sorted = <<>> THEN <<x>>
    ELSE IF x.t_start <= Head(sorted).t_start THEN <<x>> \o sorted
    ELSE <<Head(sorted)>> \o insert_unstable(Tail(sorted), x)

RECURSIVE insert_by_rise(_, _)
insert_by_rise(sorted, x) ==
    IF sorted = <<>> THEN <<x>>
    ELSE IF x.t_start < Head(sorted).t_start THEN <<x>> \o sorted
    ELSE <<Head(sorted)>> \o insert_by_rise(Tail(sorted), x)

RECURSIVE sort_by_rise_unstable(_)
sort_by_rise_unstable(list) ==
    IF list = <<>> THEN <<>>
    ELSE insert_unstable(sort_by_rise_unstable(SubSeq(list, 1, Len(list) - 1)),
                         list[Len(list)])

RECURSIVE sort_by_rise(_)
sort_by_rise(list) ==
    IF list = <<>> THEN <<>>
    ELSE insert_by_rise(sort_by_rise(SubSeq(list, 1, Len(list) - 1)),
                        list[Len(list)])

\* what the catalog loop has found so far, after satellite k gave r
AfterSatellite(acc, k, r) ==
    [passes |-> acc.passes \o r.passes,
     calls |-> [acc.calls EXCEPT ![k] = r.calls],
     raised |-> r.raised,
     triples |-> [acc.triples EXCEPT ![k] = r.triples]]

\* the catalog loop from satellite k on: the passes found, the propagator
\* calls made for each satellite, and the exception that ended the loop
RECURSIVE catalog_loop(_, _, _, _)
RECURSIVE catalog_loop_next(_, _, _, _)
catalog_loop(sats, q, k, acc) ==
    IF k > Len(sats) THEN acc
    ELSE catalog_loop_next(sats, q, k,
                           AfterSatellite(acc, k, scan_satellite(sats[k], q)))

\* the next satellite, unless an exception left the loop
catalog_loop_next(sats, q, k, found) ==
    IF found.raised # "" THEN found
    ELSE catalog_loop(sats, q, k + 1, found)

NoCallsAtAll(sats) == [k \in 1..Len(sats) |-> NoCalls]
NoTriplesAtAll(sats) == [k \in 1..Len(sats) |-> <<>>]

\* lines 347-350: the sorted list is returned, unless an exception was raised
sorted_result(found, q) ==
    [ret |-> IF found.raised = "" THEN sort_by_rise(found.passes) ELSE <<>>,
     calls |-> found.calls,
     raised |-> found.raised,
     triples |-> found.triples,
     window |-> requested_window(q)]

\* the whole function: what it returns (ret), or the exception it raises
find_visible_satellites(sats, q) ==
    IF Len(q.location) < 2
    THEN [ret |-> <<>>, calls |-> NoCallsAtAll(sats), raised |-> "IndexError",
          triples |-> NoTriplesAtAll(sats), window |-> <<>>]
    ELSE sorted_result(catalog_loop(sats, q, 1,
             [passes |-> <<>>, calls |-> NoCallsAtAll(sats), raised |-> "",
              triples |-> NoTriplesAtAll(sats)]), q)

(***************************************************************************)
(* SatellitePassTrackerApp (main.py).  An entry field holds text: num says *)
(* whether float() accepts it, val is the number it then gives.  The       *)
(* location entry is the list location.split(",") of such fields.          *)
(***************************************************************************)
Num(v) == [num |-> TRUE, val |-> v]
NotANumber == [num |-> FALSE, val |-> 0]

\* Python's round() of a number of seconds: to the nearest, a half to the even
round_seconds(ticks) ==
    LET w == ticks \div TicksPerSecond
        r == ticks % TicksPerSecond
    IN  IF 2 * r < TicksPerSecond THEN w
        ELSE IF 2 * r > TicksPerSecond THEN w + 1
        ELSE IF w % 2 = 0 THEN w ELSE w + 1

\* strftime("%H:%M:%S"): the time of the day of the instant in whole seconds,
\* without the day; the day of the query starts at the instant 0
clock(t) == (t \div TicksPerSecond) % 86400

\* the row of the table for the i-th pass (main.py:159-173)
format_result(i, sat) ==
    [idx |-> i,
     name |-> sat.satellite.name,
     start |-> clock(sat.t_start),
     peak |-> clock(sat.t_peak),
     end |-> clock(sat.t_end),
     start_az |-> sat.start_az,
     end_az |-> sat.end_az,
     peak_alt |-> sat.peak_alt,
     duration |-> round_seconds(sat.duration),
     sun_start |-> clock(sat.t_sun_start),
     sun_end |-> clock(sat.t_sun_end)]

\* the arguments search_visible_passes gives to find_visible_satellites
query_of(e) ==
    [location |-> [k \in 1..Len(e.location) |-> e.location[k].val],
     time |-> 0,
     sma_range |-> <<e.min_sma.val, e.max_sma.val>>,
     altitude_degrees |-> 10,
     min_peak_altitude |-> e.min_altitude.val,
     timeframe_hours |-> e.hours_window.val,
     min_duration |-> 30,
     include_starlink |-> e.include_starlink]

\* main.py:157-175: the formatted rows and the raw results, from what
\* find_visible_satellites gave
formatted_results(q, r) ==
    [raised |-> r.raised, query |-> <<q>>, calls |-> r.calls,
     triples |-> r.triples, window |-> r.window,
     formatted |-> [i \in 1..Len(r.ret) |-> format_result(i, r.ret[i])],
     results |-> r.ret]

\* search_visible_passes (main.py:139-175): the exception it raises, or the
\* formatted rows and the raw results
search_visible_passes(sats, e) ==
    IF ~e.date_ok \/ \E k \in 1..Len(e.location) : ~e.location[k].num
    THEN [raised |-> "ValueError", query |-> <<>>, calls |-> NoCallsAtAll(sats),
          triples |-> NoTriplesAtAll(sats), window |-> <<>>,
          formatted |-> <<>>, results |-> <<>>]
    ELSE formatted_results(query_of(e), find_visible_satellites(sats, query_of(e)))

\* the checks of on_search before the search is called (main.py:106-116)
input_error(e) ==
    \/ ~e.hours_window.num \/ ~e.min_altitude.num
    \/ ~e.min_sma.num \/ ~e.max_sma.num
    \/ e.hours_window.val < 0 \/ e.min_sma.val < 0 \/ e.max_sma.val < 0
    \/ e.min_sma.val > e.max_sma.val

(***************************************************************************)
(* The catalog (satellite_finder.py:32-79, 159-199).  The TLE file is the  *)
(* list of its groups of three lines: the name and the two element lines;  *)
(* an element line carries the element set it encodes, which is what the   *)
(* propagator answers for the satellite built from it.                     *)
(***************************************************************************)
tle_group(sat) ==
    [name |-> sat.name,
     line1 |-> [line |-> 1, elements |-> sat],
     line2 |-> [line |-> 2, elements |-> sat]]

\* the file that holds the satellites of sats
tle_text(sats) == [k \in 1..Len(sats) |-> tle_group(sats[k])]

\* _process_tle_file: name -> (line 1, line 2), a later group of the same
\* name replaces an earlier one
process_tle_file(file) ==
    [n \in {file[k].name : k \in 1..Len(file)} |->
        LET last == CHOOSE k \in 1..Len(file) :
                        /\ file[k].name = n
                        /\ \A j \in 1..Len(file) : file[j].name = n => j <= k
        IN  <<file[last].line1, file[last].line2>>]

\* load.tle_file: one satellite for each group of the file
load_tle_file(file) == [k \in 1..Len(file) |-> file[k].line1.elements]

\* reload_tle (satellite_finder.py:69-79).  download is <<>> when the
\* download fails and holds the satellites of the downloaded file otherwise;
\* readable tells whether open() of the file works in _process_tle_file.
reload_tle(sats, file, download, readable) ==
    IF ~readable
    THEN [satellite_tle_dict |-> <<>>,
          tle_file |-> IF download = <<>> THEN file ELSE tle_text(download[1]),
          satellites |-> sats,
          raised |-> "OSError"]
    ELSE [satellite_tle_dict |->
              process_tle_file(IF download = <<>> THEN file ELSE tle_text(download[1])),
          tle_file |-> IF download = <<>> THEN file ELSE tle_text(download[1]),
          satellites |->
              load_tle_file(IF download = <<>> THEN file ELSE tle_text(download[1])),
          raised |-> ""]

\* get_tle (satellite_finder.py:189-199): <<>> stands for None
get_tle(dict, satellite_name) ==
    IF satellite_name \in DOMAIN dict THEN <<dict[satellite_name]>> ELSE <<>>

\* copy_tle_line (main.py:183-194) on the selected row: unpacking None raises
copy_tle_line(dict, row, line_index) ==
    IF get_tle(dict, row.name) = <<>>
    THEN [raised |-> "TypeError", clipboard |-> <<>>]
    ELSE [raised |-> "",
          clipboard |-> <<get_tle(dict, row.name)[1][IF line_index = 1 THEN 1 ELSE 2]>>]

(***************************************************************************)
(* generate_azel_data (satellite_finder.py:83-126) and show_pass_graph     *)
(* (main.py:203-216).                                                      *)
(***************************************************************************)
\* the propagator's azimuth and altitude of sat at any instant: those of the
\* latest crossing event at or before t, of the first event before that
position(sat, t) ==
    IF sat.track = <<>> THEN [alt |-> 0, az |-> 0]
    ELSE LET before == SelectSeq(sat.track, LAMBDA e : e.t <= t)
             e == IF before = <<>> THEN sat.track[1] ELSE before[Len(before)]
         IN  [alt |-> e.alt, az |-> e.az]

\* Time.utc_iso(): the instant rounded to the second
utc_iso(t) == round_seconds(t) * TicksPerSecond

\* the while loop of lines 111-123
RECURSIVE azel_loop(_, _, _, _)
azel_loop(sat, t_now, t_stop, azel_data) ==
    IF t_now < t_stop
    THEN azel_loop(sat, utc_second(t_now + Sec(10)), t_stop,
                   Append(azel_data, [t |-> utc_iso(t_now),
                                      az |-> position(sat, t_now).az,
                                      alt |-> position(sat, t_now).alt]))
    ELSE azel_data

\* lines 111-126: the loop ran to its end with azel_data, one altaz call for
\* each sample
sampled(azel_data) ==
    [raised |-> "", azel_data |-> azel_data, altaz |-> Len(azel_data)]

\* the whole function: the samples it returns (azel_data), or the exception
\* it raises, and the altaz calls it made; line 96 reads observer[0] and
\* observer[1], line 113 is the altaz call of the first sample
generate_azel_data(sat, observer, t0, t1) ==
    IF Len(observer) < 2
    THEN [raised |-> "IndexError", azel_data |-> <<>>, altaz |-> 0]
    ELSE IF sat.fails = "altaz" /\ utc_second(t0) < utc_second(t1)
    THEN [raised |-> "PropagationError", azel_data |-> <<>>, altaz |-> 1]
    ELSE sampled(azel_loop(sat, utc_second(t0), utc_second(t1), <<>>))

\* main.py:207-214: the arguments show_pass_graph gives to generate_azel_data
\* for the selected row, once float() took every field of the location
pass_graph_args(results, row, location) ==
    [satellite |-> results[row.idx].satellite,
     observer |-> [k \in 1..Len(location) |-> location[k].val],
     t0 |-> results[row.idx].t_start,
     t1 |-> results[row.idx].t_end]

\* main.py:214-216: the call with args ended with r
plotted(args, r) ==
    [raised |-> r.raised, args |-> <<args>>, data |-> r.azel_data, altaz |-> r.altaz]

\* show_pass_graph (main.py:203-216) on the selected row, with the fields
\* location of the location entry: float() raises ValueError at line 212
\* before generate_azel_data is called
show_pass_graph(results, row, location) ==
    IF \E k \in 1..Len(location) : ~location[k].num
    THEN [raised |-> "ValueError", args |-> <<>>, data |-> <<>>, altaz |-> 0]
    ELSE plotted(pass_graph_args(results, row, location),
                 generate_azel_data(results[row.idx].satellite,
                                    [k \in 1..Len(location) |-> location[k].val],
                                    results[row.idx].t_start,
                                    results[row.idx].t_end))

(***************************************************************************)
(* The inputs.                                                             *)
(***************************************************************************)
Event(t, kind, alt, az) == [t |-> t, kind |-> kind, alt |-> alt, az |-> az]

\* one pass: rise, culmination at altitude alt, set
Pass(rise, peak, set, alt, az0, az1) ==
    << Event(rise, 0, 10, az0), Event(peak, 1, alt, (az0 + az1) \div 2),
       Event(set, 2, 10, az1) >>

Satellite(name, height, track, shadow, fails) ==
    [name |-> name, height |-> height, track |-> track, shadow |-> shadow,
     fails |-> fails]

TwoPasses ==
    Pass(Sec(100), Sec(150), Sec(200), 45, Deg(10), Deg(200))
    \o Pass(Sec(1000), Sec(1060), Sec(1120), 60, 3375000, 225000)

\* two passes, sunlit throughout
SatISS == Satellite(<<"I", "S", "S">>, 550, TwoPasses, {}, "none")
\* the window opens in the middle of a pass: Set, Rise, Peak, Set
SatMid == Satellite(<<"N", "O", "A", "A">>, 500,
                    <<Event(Sec(50), 2, 10, Deg(90))>>
                    \o Pass(Sec(100), Sec(150), Sec(200), 35, Deg(180), Deg(270)),
                    {}, "none")
\* one complete pass and nothing else
SatOne == Satellite(<<"O", "N", "E">>, 550,
                    Pass(Sec(100), Sec(150), Sec(200), 45, Deg(0), Deg(90)),
                    {}, "none")
SatStarlink == Satellite(STARLINK \o <<"-", "1">>, 550,
                    Pass(Sec(300), Sec(350), Sec(400), 50, Deg(45), Deg(135))
                    \o Pass(Sec(2000), Sec(2050), Sec(2100), 50, Deg(45), Deg(135)),
                    {}, "none")
\* above the usual height range, an early pass
SatHigh == Satellite(<<"G", "P", "S">>, 700,
                    Pass(Sec(20), Sec(60), Sec(100), 80, Deg(300), Deg(100))
                    \o <<Event(Sec(3000), 0, 10, Deg(300))>>,
                    {}, "none")
\* in the shadow at the culmination only
SatDark == Satellite(<<"s", "t", "a", "r", "l", "i", "n", "k">>, 600,
                    Pass(Sec(100) + 1, Sec(150), Sec(200), 45, Deg(10), Deg(200))
                    \o <<Event(Sec(3000), 0, 10, Deg(10))>>,
                    {Sec(150)}, "none")
\* first pass: in the shadow for the first 60 s; second pass: for the last 30 s
SatEdge == Satellite(<<"E", "D", "G", "E">>, 600,
                    Pass(Sec(100), Sec(170), Sec(200), 45, Deg(10), Deg(200))
                    \o Pass(Sec(1000), Sec(1030), Sec(1120), 60, Deg(10), Deg(200)),
                    {Sec(100 + 10 * k) : k \in 0..5} \cup {Sec(1120 - 10 * k) : k \in 0..2},
                    "none")
\* the propagator raises for these
SatBadEvents == Satellite(<<"B", "A", "D">>, 550, TwoPasses, {}, "events")
SatBadSunlit == Satellite(<<"B", "A", "D", "2">>, 550, TwoPasses, {}, "sunlit")

SatellitePool == {SatISS, SatMid, SatOne, SatStarlink, SatHigh, SatDark, SatEdge,
                  SatBadEvents, SatBadSunlit}

RECURSIVE CatalogsOfLength(_)
CatalogsOfLength(n) ==
    IF n = 0 THEN {<<>>}
    ELSE {Append(c, s) : c \in CatalogsOfLength(n - 1), s \in SatellitePool}

Distinct(c) == \A i, j \in 1..Len(c) : i # j => c[i] # c[j]

\* heights of 500, 600 and 700 km
HeightCatalog == <<SatMid, SatEdge, SatHigh>>

Catalogs == {c \in UNION {CatalogsOfLength(n) : n \in 1..MaxCatalog} : Distinct(c)}
            \cup {HeightCatalog}

Queries ==
    [location : {<<38, 23>>},
     time : {0},
     sma_range : {<<500, 600>>, <<0, 1000>>, <<550, 600>>},
     altitude_degrees : {10},
     min_peak_altitude : {30, 50},
     timeframe_hours : {Hours(1)},
     min_duration : {0, 30, 60},
     include_starlink : BOOLEAN]

UsualEntries ==
    [date_ok |-> TRUE,
     location |-> <<Num(38), Num(23)>>,
     hours_window |-> Num(Hours(1)),
     min_altitude |-> Num(30),
     min_sma |-> Num(500),
     max_sma |-> Num(600),
     include_starlink |-> FALSE]

EntrySets ==
    {UsualEntries}
    \cup {[UsualEntries EXCEPT !.hours_window = v] : v \in {Num(0 - Hours(1)), NotANumber}}
    \cup {[UsualEntries EXCEPT !.min_sma = v[1], !.max_sma = v[2]] :
            v \in {<<Num(0), Num(1000)>>, <<Num(600), Num(500)>>,
                   <<Num(0 - 1), Num(600)>>, <<NotANumber, Num(600)>>,
                   <<Num(800), Num(900)>>}}
    \cup {[UsualEntries EXCEPT !.location = v] :
            v \in {<<Num(38)>>, <<Num(38), NotANumber>>, <<NotANumber>>,
                   <<Num(38), Num(23), Num(5)>>}}
    \cup {[UsualEntries EXCEPT !.date_ok = FALSE]}
    \cup {[UsualEntries EXCEPT !.min_altitude = v] : v \in {Num(50), NotANumber}}
    \cup {[UsualEntries EXCEPT !.include_starlink = TRUE]}

(***************************************************************************)
(* The state machine.                                                      *)
(*   satellites           satellite_db.satellites, the catalog             *)
(*   op                   the operation that ran last                      *)
(*   query, ret, outcome  the arguments of the last call of                *)
(*                        find_visible_satellites, the list it returned    *)
(*                        and how the operation ended                      *)
(*   calls                the propagator calls the last operation made for *)
(*                        each satellite of the catalog (calls for a       *)
(*                        satellite of last_results that a reload took out *)
(*                        of the catalog are not counted)                  *)
(*   entries              the entry fields as the last on_search read them *)
(*                        or as the user left them since                   *)
(*   last_results, treeview, total_results_label, dialog   the application *)
(*   triples              the indices at which the last search entered the *)
(*                        body of the triple loop, for each satellite      *)
(*   requested            the interval the last search gave to find_events *)
(*   tle_file             the groups of the TLE file                       *)
(*   satellite_tle_dict   satellite_db.satellite_tle_dict                  *)
(*   clipboard            the line copied by copy_tle_line                 *)
(*   azel_args, graph     the arguments of the last generate_azel_data and *)
(*                        the samples it returned                          *)
(***************************************************************************)
\* satellite_db.__init__ (satellite_finder.py:52-63): the dictionary and the
\* satellites are both read from the file
CatalogLoaded ==
    /\ tle_file = tle_text(satellites)
    /\ satellite_tle_dict = process_tle_file(tle_file)
    /\ clipboard = <<>>
    /\ graph = <<>>

Init ==
    /\ satellites \in Catalogs
    /\ CatalogLoaded
    /\ azel_args = <<>>
    /\ query = <<>>
    /\ ret = <<>>
    /\ calls = NoCallsAtAll(satellites)
    /\ triples = NoTriplesAtAll(satellites)
    /\ requested = <<>>
    /\ outcome = "none"
    /\ op = "init"
    /\ entries = <<>>
    /\ last_results = <<>>
    /\ treeview = <<>>
    /\ total_results_label = 0
    /\ dialog = ""
    /\ azimuth = 0
    /\ direction = ""

\* the state after find_visible_satellites ended with r
Ended(r) ==
    /\ ret' = r.ret
    /\ calls' = r.calls
    /\ triples' = r.triples
    /\ requested' = r.window
    /\ outcome' = IF r.raised = "" THEN "returned" ELSE r.raised

\* a call of satellite_db.find_visible_satellites (satellite_finder.py:365)
FindVisibleSatellites(q) ==
    /\ op' = "find_visible_satellites"
    /\ query' = <<q>>
    /\ Ended(find_visible_satellites(satellites, q))
    /\ UNCHANGED <<satellites, entries, last_results, treeview,
                   total_results_label, dialog, azimuth, direction,
                   tle_file, satellite_tle_dict, clipboard, azel_args, graph>>

\* main.py:122-137: what on_search does with the outcome r of
\* search_visible_passes; kept is the application state before
show_results(r, kept) ==
    IF r.raised = "ValueError"
    THEN [outcome |-> "ValueError", dialog |-> "Input Error", query |-> r.query,
          ret |-> <<>>, calls |-> r.calls, triples |-> r.triples,
          window |-> r.window, app |-> kept]
    ELSE IF r.raised # ""
    THEN \* not a ValueError: it leaves on_search uncaught
         [outcome |-> r.raised, dialog |-> "", query |-> r.query,
          ret |-> <<>>, calls |-> r.calls, triples |-> r.triples,
          window |-> r.window, app |-> kept]
    ELSE IF r.formatted # <<>>
    THEN [outcome |-> "returned", dialog |-> "", query |-> r.query,
          ret |-> r.results, calls |-> r.calls, triples |-> r.triples,
          window |-> r.window,
          app |-> [last_results |-> r.results, treeview |-> r.formatted,
                   total_results_label |-> Len(r.formatted)]]
    ELSE [outcome |-> "returned", dialog |-> "No Results", query |-> r.query,
          ret |-> r.results, calls |-> r.calls, triples |-> r.triples,
          window |-> r.window,
          app |-> [last_results |-> r.results, treeview |-> <<>>,
                   total_results_label |-> kept.total_results_label]]

\* on_search (main.py:101-137) on the entries e: how it ends, the dialog it
\* shows, and the results, the rows and the label it leaves
on_search(e, sats, kept) ==
    IF input_error(e)
    THEN [outcome |-> "ValueError", dialog |-> "Input Error", query |-> <<>>,
          ret |-> <<>>, calls |-> NoCallsAtAll(sats),
          triples |-> NoTriplesAtAll(sats), window |-> <<>>, app |-> kept]
    ELSE show_results(search_visible_passes(sats, e), kept)

\* the state after on_search ended with r
Shown(r) ==
    /\ outcome' = r.outcome
    /\ dialog' = r.dialog
    /\ query' = r.query
    /\ ret' = r.ret
    /\ calls' = r.calls
    /\ triples' = r.triples
    /\ requested' = r.window
    /\ last_results' = r.app.last_results
    /\ treeview' = r.app.treeview
    /\ total_results_label' = r.app.total_results_label

\* the Search button
OnSearch(e) ==
    /\ op' = "on_search"
    /\ entries' = <<e>>
    /\ Shown(on_search(e, satellites,
                       [last_results |-> last_results, treeview |-> treeview,
                        total_results_label |-> total_results_label]))
    /\ UNCHANGED <<satellites, azimuth, direction,
                   tle_file, satellite_tle_dict, clipboard, azel_args, graph>>

Search == \E q \in Queries : FindVisibleSatellites(q)

SearchButton == \E e \in EntrySets : OnSearch(e)

\* the library, called as in satellite_finder.py:354-365
Next == Search

Spec == Init /\ [][Next]_vars

\* the application: the catalog is searched through the form only
NextApp == SearchButton

SpecApp == Init /\ [][NextApp]_vars

(***************************************************************************)
(* The catalog under reloads: the Reload TLE button, the Search button and *)
(* the Copy TLE Line entries of the context menu of a row.                 *)
(***************************************************************************)
Downloads == {<<>>, <<<<SatISS>>>>}

\* the state after reload_tle ended with r
Reloaded(r) ==
    /\ satellite_tle_dict' = r.satellite_tle_dict
    /\ tle_file' = r.tle_file
    /\ satellites' = r.satellites
    /\ calls' = NoCallsAtAll(r.satellites)
    /\ triples' = NoTriplesAtAll(r.satellites)
    /\ requested' = <<>>
    /\ outcome' = IF r.raised = "" THEN "returned" ELSE r.raised

\* the Reload TLE button (main.py:46)
ReloadTle(download, readable) ==
    /\ op' = "reload_tle"
    /\ Reloaded(reload_tle(satellites, tle_file, download, readable))
    /\ UNCHANGED <<query, ret, entries, last_results, treeview,
                   total_results_label, dialog, azimuth, direction, clipboard,
                   azel_args, graph>>

\* the state after copy_tle_line ended with r
Copied(r) ==
    /\ clipboard' = IF r.raised = "" THEN r.clipboard ELSE clipboard
    /\ outcome' = IF r.raised = "" THEN "returned" ELSE r.raised

\* Copy TLE Line 1 or 2 on the selected row (main.py:183-200)
CopyTleLine(row, line_index) ==
    /\ row \in 1..Len(treeview)
    /\ op' = "copy_tle_line"
    /\ Copied(copy_tle_line(satellite_tle_dict, treeview[row], line_index))
    /\ calls' = NoCallsAtAll(satellites)
    /\ triples' = NoTriplesAtAll(satellites)
    /\ requested' = <<>>
    /\ UNCHANGED <<satellites, query, ret, entries, last_results, treeview,
                   total_results_label, dialog, azimuth, direction,
                   tle_file, satellite_tle_dict, azel_args, graph>>

\* the state after show_pass_graph ended with r: the arguments of the call
\* of generate_azel_data, if it was called, the samples, if it returned, and
\* the altaz calls it made for the satellite it was given
Plotted(r) ==
    /\ azel_args' = IF r.args = <<>> THEN azel_args ELSE r.args
    /\ calls' = [k \in 1..Len(satellites) |->
                     IF r.args # <<>> /\ satellites[k] = r.args[1].satellite
                     THEN [NoCalls EXCEPT !.altaz = r.altaz]
                     ELSE NoCalls]
    /\ graph' = IF r.raised = "" THEN r.data ELSE graph
    /\ outcome' = IF r.raised = "" THEN "returned" ELSE r.raised

\* Show Pass Graph on the selected row (main.py:203-216); the location entry
\* holds what entries says
ShowPassGraph(row) ==
    /\ row \in 1..Len(treeview)
    /\ entries # <<>>
    /\ op' = "show_pass_graph"
    /\ Plotted(show_pass_graph(last_results, treeview[row], entries[1].location))
    /\ triples' = NoTriplesAtAll(satellites)
    /\ requested' = <<>>
    /\ UNCHANGED <<satellites, query, ret, entries, last_results, treeview,
                   total_results_label, dialog, azimuth, direction,
                   tle_file, satellite_tle_dict, clipboard>>

\* the user types location into the location entry (main.py:32)
EditLocation(location) ==
    /\ entries # <<>>
    /\ entries[1].location # location
    /\ op' = "edit_location"
    /\ entries' = <<[entries[1] EXCEPT !.location = location]>>
    /\ UNCHANGED <<satellites, query, ret, calls, triples, requested, outcome,
                   last_results, treeview, total_results_label, dialog, azimuth,
                   direction, tle_file, satellite_tle_dict, clipboard, azel_args, graph>>

Reload == \E download \in Downloads, readable \in BOOLEAN :
              (download # <<>> => readable) /\ ReloadTle(download, readable)

CatalogEntrySets ==
    {UsualEntries, [UsualEntries EXCEPT !.min_sma = Num(800), !.max_sma = Num(900)]}

SearchCatalog == \E e \in CatalogEntrySets : OnSearch(e)

CopyTle == \E row \in 1..MaxRows, line_index \in {1, 2} : CopyTleLine(row, line_index)

ShowGraph == \E row \in 1..MaxRows : ShowPassGraph(row)

Locations == {<<Num(38), Num(23)>>, <<Num(38)>>, <<Num(38), NotANumber>>}

Edit == \E location \in Locations : EditLocation(location)

NextCatalog == Reload \/ SearchCatalog \/ CopyTle \/ ShowGraph \/ Edit

\* the catalogs the application starts with
StartCatalogs == {<<SatMid>>, <<SatEdge, SatMid>>}

InitCatalog ==
    /\ satellites \in StartCatalogs
    /\ CatalogLoaded
    /\ azel_args = <<>>
    /\ query = <<>>
    /\ ret = <<>>
    /\ calls = NoCallsAtAll(satellites)
    /\ triples = NoTriplesAtAll(satellites)
    /\ requested = <<>>
    /\ outcome = "none"
    /\ op = "init"
    /\ entries = <<>>
    /\ last_results = <<>>
    /\ treeview = <<>>
    /\ total_results_label = 0
    /\ dialog = ""
    /\ azimuth = 0
    /\ direction = ""

SpecCatalog == InitCatalog /\ [][NextCatalog]_vars

(***************************************************************************)
(* generate_azel_data on every pair of instants of a span that starts at   *)
(* the rise of the first pass, for a satellite the propagator answers for  *)
(* and for one it raises for.                                              *)
(***************************************************************************)
SatBadAltaz == Satellite(<<"B", "A", "D", "3">>, 550, TwoPasses, {}, "altaz")

AzelSatellites == {SatISS, SatBadAltaz}

AzelInstants == {Sec(100) + d : d \in 0..Sec(MaxSpan)}

InitAzel ==
    /\ satellites \in {<<sat>> : sat \in AzelSatellites}
    /\ CatalogLoaded
    /\ azel_args \in {<<[satellite |-> satellites[1], observer |-> <<38, 23>>,
                           t0 |-> a, t1 |-> b]>> :
                          a \in AzelInstants, b \in AzelInstants}
    /\ query = <<>>
    /\ ret = <<>>
    /\ calls = NoCallsAtAll(satellites)
    /\ triples = NoTriplesAtAll(satellites)
    /\ requested = <<>>
    /\ outcome = "none"
    /\ op = "init"
    /\ entries = <<>>
    /\ last_results = <<>>
    /\ treeview = <<>>
    /\ total_results_label = 0
    /\ dialog = ""
    /\ azimuth = 0
    /\ direction = ""

GenerateAzelData ==
    /\ op = "init"
    /\ op' = "generate_azel_data"
    /\ Plotted(plotted(azel_args[1],
                       generate_azel_data(azel_args[1].satellite, azel_args[1].observer,
                                          azel_args[1].t0, azel_args[1].t1)))
    /\ UNCHANGED <<satellites, query, ret, triples, requested, entries,
                   last_results, treeview, total_results_label, dialog, azimuth, direction,
                   tle_file, satellite_tle_dict, clipboard>>

NextAzel == GenerateAzelData

SpecAzel == InitAzel /\ [][NextAzel]_vars

(***************************************************************************)
(* The segmentation of the crossing events: one satellite whose events     *)
(* cycle Rise, Peak, Set from any of the three kinds on, 25 s apart.       *)
(***************************************************************************)
CyclicTrack(phase, n) ==
    [j \in 1..n |->
        Event(Sec(25 * j), (phase + j - 1) % 3,
              IF (phase + j - 1) % 3 = 1 THEN 45 ELSE 10, Deg(10 * j))]

SegCatalogs ==
    {<<Satellite(<<"S", "E", "G">>, 550, CyclicTrack(phase, n), {}, "none")>> :
        phase \in 0..2, n \in 0..MaxEvents}

InitSeg ==
    /\ satellites \in SegCatalogs
    /\ CatalogLoaded
    /\ azel_args = <<>>
    /\ query = <<>>
    /\ ret = <<>>
    /\ calls = NoCallsAtAll(satellites)
    /\ triples = NoTriplesAtAll(satellites)
    /\ requested = <<>>
    /\ outcome = "none"
    /\ op = "init"
    /\ entries = <<>>
    /\ last_results = <<>>
    /\ treeview = <<>>
    /\ total_results_label = 0
    /\ dialog = ""
    /\ azimuth = 0
    /\ direction = ""

SearchSeg == \E q \in Queries : FindVisibleSatellites(q)

NextSeg == SearchSeg

SpecSeg == InitSeg /\ [][NextSeg]_vars

(***************************************************************************)
(* The window of the search: windows of 0 to MaxWindow half hours, through *)
(* the library call and through the form, over a satellite with a pass in  *)
(* each of the first three half hours.                                     *)
(***************************************************************************)
SatWindow == Satellite(<<"W", "I", "N">>, 550,
                    Pass(Sec(100), Sec(150), Sec(200), 45, Deg(10), Deg(200))
                    \o Pass(Sec(2000), Sec(2050), Sec(2100), 45, Deg(10), Deg(200))
                    \o Pass(Sec(4000), Sec(4050), Sec(4100), 45, Deg(10), Deg(200))
                    \o <<Event(Sec(9000), 0, 10, Deg(10))>>,
                    {}, "none")

WindowCatalogs == {<<SatWindow>>, <<SatISS, SatWindow>>}

WindowQueries ==
    {[q EXCEPT !.timeframe_hours = w] :
        q \in {x \in Queries : x.sma_range = <<500, 600>> /\ ~x.include_starlink},
        w \in 0..MaxWindow}

WindowEntrySets ==
    {[UsualEntries EXCEPT !.hours_window = Num(w)] : w \in 0..MaxWindow}

InitWindow ==
    /\ satellites \in WindowCatalogs
    /\ CatalogLoaded
    /\ azel_args = <<>>
    /\ query = <<>>
    /\ ret = <<>>
    /\ calls = NoCallsAtAll(satellites)
    /\ triples = NoTriplesAtAll(satellites)
    /\ requested = <<>>
    /\ outcome = "none"
    /\ op = "init"
    /\ entries = <<>>
    /\ last_results = <<>>
    /\ treeview = <<>>
    /\ total_results_label = 0
    /\ dialog = ""
    /\ azimuth = 0
    /\ direction = ""

SearchWindow == \E q \in WindowQueries : FindVisibleSatellites(q)

SearchButtonWindow == \E e \in WindowEntrySets : OnSearch(e)

NextWindow == SearchWindow \/ SearchButtonWindow

SpecWindow == InitWindow /\ [][NextWindow]_vars

(***************************************************************************)
(* The sunlit refinement under every sunlit predicate: one satellite whose *)
(* pass rises at 100 s and a fraction, sets at set, and is followed by a   *)
(* later rise; its shadow is any set of the instants the scans can read.   *)
(***************************************************************************)
SunlitRise == Sec(100) + 1
SunlitPeak == Sec(117)
SunlitSets == {Sec(100 + 10 * GridSteps), Sec(100 + 10 * GridSteps + 5)}

ScanInstants(set) ==
    {SunlitRise, SunlitPeak}
    \cup {Sec(100 + 10 * k) : k \in 1..GridSteps}
    \cup {set - Sec(10 * k) : k \in 0..GridSteps}

SunlitSatellite(set, shadow) ==
    Satellite(<<"S", "U", "N">>, 550,
              Pass(SunlitRise, SunlitPeak, set, 45, Deg(10), Deg(200))
              \o <<Event(Sec(3000), 0, 10, Deg(10))>>,
              shadow, "none")

SunlitCatalogs ==
    UNION {{<<SunlitSatellite(set, shadow)>> : shadow \in SUBSET ScanInstants(set)} :
           set \in SunlitSets}

SunlitQueries == {q \in Queries : q.sma_range = <<500, 600>> /\ q.min_peak_altitude = 30
                                  /\ ~q.include_starlink}

InitSunlit ==
    /\ satellites \in SunlitCatalogs
    /\ CatalogLoaded
    /\ azel_args = <<>>
    /\ query = <<>>
    /\ ret = <<>>
    /\ calls = NoCallsAtAll(satellites)
    /\ triples = NoTriplesAtAll(satellites)
    /\ requested = <<>>
    /\ outcome = "none"
    /\ op = "init"
    /\ entries = <<>>
    /\ last_results = <<>>
    /\ treeview = <<>>
    /\ total_results_label = 0
    /\ dialog = ""
    /\ azimuth = 0
    /\ direction = ""

SearchSunlit == \E q \in SunlitQueries : FindVisibleSatellites(q)

NextSunlit == SearchSunlit

SpecSunlit == InitSunlit /\ [][NextSunlit]_vars

(***************************************************************************)
(* azimuth_to_direction on its own.                                        *)
(***************************************************************************)
SectorBounds == {225000 + 450000 * k : k \in 0..7}

AzInputs ==
    {k * (Deg(360) \div AzSamples) : k \in 0..(AzSamples - 1)}
    \cup {b + d : b \in SectorBounds, d \in {0 - 1, 0, 1}}
    \cup {Deg(360) - 10}

InitAz ==
    /\ satellites = <<>>
    /\ CatalogLoaded
    /\ azel_args = <<>>
    /\ query = <<>>
    /\ ret = <<>>
    /\ calls = <<>>
    /\ triples = <<>>
    /\ requested = <<>>
    /\ outcome = "none"
    /\ op = "init"
    /\ entries = <<>>
    /\ last_results = <<>>
    /\ treeview = <<>>
    /\ total_results_label = 0
    /\ dialog = ""
    /\ azimuth = 0
    /\ direction = ""

AzimuthToDirection(az) ==
    /\ op' = "azimuth_to_direction"
    /\ azimuth' = az
    /\ direction' = azimuth_to_direction(az)
    /\ UNCHANGED <<satellites, query, ret, calls, triples, requested, outcome,
                   entries, last_results, treeview, total_results_label, dialog,
                   tle_file, satellite_tle_dict, clipboard, azel_args, graph>>

NextAz == \E az \in AzInputs : AzimuthToDirection(az)

SpecAz == InitAz /\ [][NextAz]_vars

(***************************************************************************)
(* Properties.                                                             *)
(***************************************************************************)
Args == query[1]

\* the name has the characters of STARLINK somewhere in a row
HasStarlink(name) ==
    \E o \in 1..Len(name) :
        /\ o + 7 <= Len(name)
        /\ \A c \in 1..8 : name[o + c - 1] = STARLINK[c]

InHeightRange(sat, q) == q.sma_range[1] <= sat.height /\ sat.height <= q.sma_range[2]

\* the events of the track that fall in the window of the query
InWindow(sat, q) == find_events(sat, start_instant(q), end_instant(q))

PassesOf(sat) == {i \in 1..Len(ret) : ret[i].satellite = sat}

\* C1: an object that passes the name and height filters and whose events
\* in the window are exactly one Rise, Peak, Set, long enough, high enough
\* and sunlit at every instant, has exactly one pass in the result, and the
\* duration reported for it is set - rise.
C1_OneTripleOnePass ==
    (op = "find_visible_satellites" /\ outcome = "returned") =>
        \A k \in 1..Len(satellites) :
            LET sat == satellites[k]
                ev == InWindow(sat, Args)
            IN  ( /\ ~(~Args.include_starlink /\ HasStarlink(sat.name))
                  /\ InHeightRange(sat, Args)
                  /\ Len(ev) = 3
                  /\ ev[1].kind = 0 /\ ev[2].kind = 1 /\ ev[3].kind = 2
                  /\ ev[3].t - ev[1].t >= Sec(Args.min_duration)
                  /\ ev[2].alt >= Args.min_peak_altitude
                  /\ sat.shadow = {}
                  /\ sat.fails = "none" )
                => /\ Cardinality(PassesOf(sat)) = 1
                   /\ \A i \in PassesOf(sat) : ret[i].duration = ev[3].t - ev[1].t

\* C2: every pass of the result is sunlit at its peak instant: a
\* Rise, Peak, Set whose object is in the shadow at the peak is not returned.
C2_SunlitAtPeak ==
    (op = "find_visible_satellites" /\ outcome = "returned") =>
        /\ \A i \in 1..Len(ret) : ret[i].t_peak \notin ret[i].satellite.shadow
        /\ \A k \in 1..Len(satellites) : \A j \in 1..Len(satellites[k].track) :
              LET e == satellites[k].track[j]
              IN  (e.kind = 1 /\ e.t \in satellites[k].shadow)
                  => \A i \in PassesOf(satellites[k]) : ret[i].t_peak # e.t

\* a pass in the shadow at the peak only: both scans stop at once, the
\* refined duration is long enough, the peak gate is reached and rejects it
C2_Witness ==
    /\ op = "find_visible_satellites" /\ outcome = "returned"
    /\ \E k \in 1..Len(satellites) :
          LET sat == satellites[k]
          IN  /\ sat.shadow = {sat.track[2].t}
              /\ sat.track[1].kind = 0 /\ sat.track[2].kind = 1
              /\ sat.track[3].t - sat.track[1].t >= Sec(Args.min_duration)
              /\ calls[k].sunlit = 3
              /\ PassesOf(sat) = {}

\* C3: every pass of the result has rise < peak < set and a reported
\* duration of at least min_duration seconds.
C3_OrderAndDuration ==
    (op = "find_visible_satellites" /\ outcome = "returned") =>
        \A i \in 1..Len(ret) :
            /\ ret[i].t_start < ret[i].t_peak
            /\ ret[i].t_peak < ret[i].t_end
            /\ ret[i].duration >= Sec(Args.min_duration)

\* a returned pass whose reported duration was shortened by the scans, next
\* to a pass of the same object that was dropped
C3_Witness ==
    /\ op = "find_visible_satellites" /\ outcome = "returned"
    /\ Args.min_duration > 0
    /\ \E i \in 1..Len(ret) :
          /\ ret[i].duration < ret[i].t_end - ret[i].t_start
          /\ \E j \in 1..Len(ret[i].satellite.track) :
                LET e == ret[i].satellite.track[j]
                IN  e.kind = 0 /\ \A n \in 1..Len(ret) : ret[n].t_start # e.t

\* C4: an object whose height is below the minimum or above the maximum of
\* sma_range gets no crossing-event request and has no pass in the result;
\* an object whose height equals a bound is not rejected by the filter.
C4_HeightFilter ==
    (op = "find_visible_satellites") =>
        \A k \in 1..Len(satellites) :
            LET sat == satellites[k]
            IN  /\ (sat.height < Args.sma_range[1] \/ sat.height > Args.sma_range[2])
                   => (calls[k].events = 0 /\ PassesOf(sat) = {})
                /\ ( /\ outcome = "returned"
                     /\ (sat.height = Args.sma_range[1] \/ sat.height = Args.sma_range[2])
                     /\ ~(~Args.include_starlink /\ HasStarlink(sat.name)) )
                   => calls[k].events = 1

\* one object below the minimum and one above the maximum, each rejected
\* after the height call and before any request of events, and one object at
\* a bound of the range whose events were requested
C4_Witness ==
    /\ op = "find_visible_satellites" /\ outcome = "returned"
    /\ \E k \in 1..Len(satellites) :
          /\ satellites[k].height < Args.sma_range[1]
          /\ calls[k].height = 1
          /\ calls[k].events = 0
    /\ \E k \in 1..Len(satellites) :
          /\ satellites[k].height > Args.sma_range[2]
          /\ calls[k].height = 1
          /\ calls[k].events = 0
    /\ \E k \in 1..Len(satellites) :
          /\ satellites[k].height \in {Args.sma_range[1], Args.sma_range[2]}
          /\ calls[k].events = 1

\* C5: with include_starlink false, no pass of the result belongs to an
\* object whose name contains STARLINK, and no propagator call at all is
\* made for such an object.
C5_StarlinkExcluded ==
    (op = "find_visible_satellites" /\ ~Args.include_starlink) =>
        \A k \in 1..Len(satellites) :
            HasStarlink(satellites[k].name)
            => (calls[k] = NoCalls /\ PassesOf(satellites[k]) = {})

\* a STARLINK object skipped without a call while the object after it is scanned
C5_Witness ==
    /\ op = "find_visible_satellites" /\ outcome = "returned"
    /\ ~Args.include_starlink
    /\ Len(satellites) >= 2
    /\ HasStarlink(satellites[1].name)
    /\ InHeightRange(satellites[1], Args)
    /\ calls[1] = NoCalls
    /\ calls[2].height = 1
    /\ ret # <<>>

CatalogIndex(sat) == CHOOSE k \in 1..Len(satellites) : satellites[k] = sat

\* C6: the result is in ascending order of rise instant, and passes with
\* the same rise instant are in the order in which the catalog scan found
\* them.
C6_SortedStable ==
    (op = "find_visible_satellites" /\ outcome = "returned") =>
        \A i, j \in 1..Len(ret) :
            i < j =>
                /\ ret[i].t_start <= ret[j].t_start
                /\ ret[i].t_start = ret[j].t_start
                   => CatalogIndex(ret[i].satellite) < CatalogIndex(ret[j].satellite)

\* two passes with the same rise instant, and a pass that the sort moved in
\* front of a pass found earlier in the scan
C6_Witness ==
    /\ op = "find_visible_satellites" /\ outcome = "returned"
    /\ \E i, j \in 1..Len(ret) : i < j /\ ret[i].t_start = ret[j].t_start
    /\ \E i, j \in 1..Len(ret) :
          /\ i < j
          /\ CatalogIndex(ret[i].satellite) > CatalogIndex(ret[j].satellite)

Sectors == <<"N", "NE", "E", "SE", "S", "SW", "W", "NW">>

\* C7: azimuth_to_direction gives, for every azimuth in [0, 360), the one
\* of the 8 directions whose sector [center - 22.5, center + 22.5) holds the
\* azimuth, North wrapping around 0: 0, 22.4999, 337.5 and 359.999 give N,
\* 22.5 gives NE, 90 gives E, 180 gives S, 270 gives W.
C7_CompassSectors ==
    (op = "azimuth_to_direction") =>
        /\ direction = Sectors[((azimuth + 225000) % 3600000) \div 450000 + 1]
        /\ azimuth \in {0, 224999, 3375000, 3599990} => direction = "N"
        /\ azimuth = 225000 => direction = "NE"
        /\ azimuth = 900000 => direction = "E"
        /\ azimuth = 1800000 => direction = "S"
        /\ azimuth = 2700000 => direction = "W"

\* the lower edge of the North-East sector
C7_Witness == op = "azimuth_to_direction" /\ azimuth = 225000 /\ direction = "NE"

\* the instants the forward scan from rise reads before set
ForwardGrid(rise, set) ==
    {t \in rise..(set - 1) :
        t = rise \/ \E n \in 1..(set - rise) : t = utc_second(rise) + n * Sec(10)}

\* the instants the backward scan from set reads after rise
BackwardGrid(rise, set) ==
    {t \in (rise + 1)..set :
        t = set \/ \E n \in 1..(set - rise) : t = utc_second(set) - n * Sec(10)}

\* C8: for every sunlit predicate, the sunlit start and the sunlit end of
\* every pass of the result lie in [rise, set]; a Rise, Peak, Set whose
\* forward scan reaches or passes the set instant, or whose backward scan
\* reaches or passes the rise instant, is not returned.
C8_SunlitWithinPass ==
    (op = "find_visible_satellites" /\ outcome = "returned") =>
        /\ \A i \in 1..Len(ret) :
              /\ ret[i].t_start <= ret[i].t_sun_start /\ ret[i].t_sun_start <= ret[i].t_end
              /\ ret[i].t_start <= ret[i].t_sun_end /\ ret[i].t_sun_end <= ret[i].t_end
        /\ \A k \in 1..Len(satellites) :
              LET sat == satellites[k]
                  rise == sat.track[1].t
                  set == sat.track[3].t
              IN  ( \/ ForwardGrid(rise, set) \subseteq sat.shadow
                    \/ BackwardGrid(rise, set) \subseteq sat.shadow )
                  => PassesOf(sat) = {}

\* a returned pass whose two scans both moved inwards
C8_Witness ==
    /\ op = "find_visible_satellites" /\ outcome = "returned"
    /\ \E i \in 1..Len(ret) :
          /\ ret[i].t_start < ret[i].t_sun_start
          /\ ret[i].t_sun_end < ret[i].t_end
          /\ ret[i].t_sun_start < ret[i].t_sun_end

\* the entries break an invariant of the query: a negative window, a
\* minimum height above the maximum, or a location that is not two numbers
InvalidEntries(e) ==
    \/ e.hours_window.num /\ e.hours_window.val < 0
    \/ e.min_sma.num /\ e.max_sma.num /\ e.min_sma.val > e.max_sma.val
    \/ Len(e.location) # 2
    \/ \E k \in 1..Len(e.location) : ~e.location[k].num

\* C9: a search request that breaks the invariants of the query raises a
\* validation error before any propagator call: no propagator call is made,
\* and the result table and last_results stay as they were.
C9_InvalidQueryRejected ==
    [][ (op' = "on_search" /\ InvalidEntries(entries'[1]))
        => /\ outcome' = "ValueError"
           /\ calls' = NoCallsAtAll(satellites)
           /\ treeview' = treeview
           /\ last_results' = last_results ]_vars

\* the passes that the search of a catalog made of sat alone returns
AloneResult(sat, q) == find_visible_satellites(<<sat>>, q).ret

\* C10: when a propagator call fails for one object, the object is skipped:
\* the search is not aborted and still returns the passes of the others.
C10_FailureSkipsObject ==
    (op = "find_visible_satellites") =>
        /\ outcome # "PropagationError"
        /\ \A k \in 1..Len(satellites) :
              satellites[k].fails = "none"
              => Range(AloneResult(satellites[k], Args)) \subseteq Range(ret)


\* the catalog the dictionary was built from is the catalog the satellites
\* were built from
SameSnapshot ==
    /\ DOMAIN satellite_tle_dict = {satellites[k].name : k \in 1..Len(satellites)}
    /\ \A k \in 1..Len(satellites) :
           \E j \in 1..Len(satellites) :
               /\ satellites[j].name = satellites[k].name
               /\ satellite_tle_dict[satellites[k].name]
                      = <<tle_group(satellites[j]).line1, tle_group(satellites[j]).line2>>

\* C11: after any sequence of reload_tle, on_search and copy_tle_line, failed
\* reloads included, the dictionary of element lines and the list of
\* satellites reflect the same catalog: every satellite has its lines in the
\* dictionary and the dictionary names nothing else.
C11_AtomicReload == SameSnapshot


\* C12: generate_azel_data(satellite, observer, t0, t1) returns samples whose
\* first one is at t0, whose consecutive timestamps are exactly 10 seconds
\* apart and all strictly before t1; it returns no sample when t0 >= t1.
C12_AzelSamples ==
    (op = "generate_azel_data" /\ outcome = "returned") =>
        LET a == azel_args[1]
        IN  /\ graph # <<>> => graph[1].t = a.t0
            /\ \A k \in 1..(Len(graph) - 1) : graph[k + 1].t - graph[k].t = Sec(10)
            /\ \A k \in 1..Len(graph) : graph[k].t < a.t1
            /\ a.t0 >= a.t1 => graph = <<>>


\* the kinds of the crossing events the search got for satellite k
KindsOf(k) == [j \in 1..Len(InWindow(satellites[k], Args)) |->
                  InWindow(satellites[k], Args)[j].kind]

\* the index, counted from 0, of the first Rise of kinds; Len(kinds) if none
FirstRiseIndex(kinds) ==
    IF \E j \in 1..Len(kinds) : kinds[j] = 0
    THEN (CHOOSE j \in 1..Len(kinds) :
              kinds[j] = 0 /\ \A h \in 1..(j - 1) : kinds[h] # 0) - 1
    ELSE Len(kinds)

\* C13: for a sequence of crossing events that cycles Rise, Peak, Set, every
\* triple that is evaluated starts at the index i of a Rise, at or after the
\* first Rise, with i + 2 inside the sequence and a Peak and a Set at i + 1
\* and i + 2, so that neither the events before the first Rise nor a trailing
\* group of fewer than 3 events is evaluated; of Set, Rise, Peak, Set only
\* the triple at the indices 1..3 is evaluated.
C13_Segmentation ==
    op = "find_visible_satellites" =>
        /\ \A n \in 1..Len(triples[1]) :
               LET i == triples[1][n]
               IN  /\ i + 2 < Len(KindsOf(1))
                   /\ i >= FirstRiseIndex(KindsOf(1))
                   /\ KindsOf(1)[i + 1] = 0
                   /\ KindsOf(1)[i + 2] = 1
                   /\ KindsOf(1)[i + 3] = 2
        /\ (KindsOf(1) = <<2, 0, 1, 2>> /\ calls[1].events = 1) => triples[1] = <<1>>

\* Set, Rise, Peak, Set, Rise, Peak, Set, Rise: the leading Set and the
\* trailing Rise are left out and the two triples between are evaluated
C13_Witness ==
    /\ op = "find_visible_satellites"
    /\ KindsOf(1) = <<2, 0, 1, 2, 0, 1, 2, 0>>
    /\ triples[1] = <<1, 4>>


\* C14: find_visible_satellites asks the propagator for the crossing events
\* of the interval that starts at the start instant and lasts the whole
\* window of the query, whether the window is a whole number of hours or
\* not (half an hour, an hour and a half).
C14_FullWindow ==
    (op \in {"find_visible_satellites", "on_search"} /\ requested # <<>>) =>
        /\ requested[1] = Args.time
        /\ requested[2] = Args.time + Args.timeframe_hours * Sec(1800)


\* C15: after any sequence of on_search calls (with results, without, or
\* rejected with an input error) the count of the Total Results label is the
\* number of rows of the table, which is the length of last_results.
C15_LabelCountsRows ==
    /\ total_results_label = Len(treeview)
    /\ Len(treeview) = Len(last_results)

====
